---- MODULE Spec2Model ----
\* A model of the partitioned bloom filter (bloom.go, utils.go) and of the
\* scalable filter built on it.  Strings are identified by small numbers; the
\* cryptographic digests are a fixed pseudo-random table indexed by the digest
\* width, the string and the byte position.
EXTENDS Integers, Sequences, FiniteSets, TLC

VARIABLES filt, fed, last, status, salt, json, cpy, sbf, sfed

vars == <<filt, fed, last, status, salt, json, cpy, sbf, sfed>>

\* ---------------------------------------------------------------- bounds

\* number of distinct strings the callers use
NStrings == 2
\* cap on the inserted counter of one Filter
MaxFeeds == 2
\* cap on the Feed calls made on the ScalableFilter
MaxSFeeds == 6

Strings == 1..NStrings

\* the digest tables tried, one per salt
Salts == {0, 1}
Names == {"A", "B"}

\* the <<size, k>> the callers pass to New: three that partition the buffer
\* (with and without a remainder, and with one bit per partition), one with no
\* partition, two with no room for k partitions, one whose k hashes need more
\* digest bytes than the widest digest has
Configs ==
    {<<1, 3>>, <<2, 3>>, <<3, 3>>, <<1, 8>>, <<1, 0>>, <<0, 3>>, <<1, 65>>, <<17, 65>>}

\* the <<size, k>> of a filter another is merged into
MergeConfigs == {<<1, 3>>, <<2, 3>>, <<3, 3>>, <<1, 8>>, <<1, 65>>}

\* the <<size, k>> of a filter that is merged into another: those of the other
\* filter, or one of these
OtherConfigs == {<<1, 3>>, <<1, 8>>}

\* the <<pExp, s, m0, rExp>> the callers pass to NewScalable, for p = 2^-pExp,
\* the growth rate s[1]/s[2] and r = 2^-rExp
ScalableConfigs ==
    {<<1, <<2, 1>>, 1, 1>>, <<2, <<2, 1>>, 1, 0>>, <<4, <<1, 1>>, 1, 2>>,
     <<61, <<1, 1>>, 17, 4>>, <<0, <<2, 1>>, 1, 1>>, <<2, <<3, 2>>, 3, 1>>,
     <<9, <<1, 1>>, 1, 1>>}

\* ------------------------------------------------------------ arithmetic

RECURSIVE Pow(_, _)
Pow(b, e) == IF e = 0 THEN 1 ELSE b * Pow(b, e - 1)

\* uint64(math.Ceil(math.Log(n)/math.Log(16))) for n >= 1
RECURSIVE CeilLog16From(_, _)
CeilLog16From(n, d) == IF Pow(16, d) >= n THEN d ELSE CeilLog16From(n, d + 1)

CeilLog16(n) == CeilLog16From(n, 0)

\* stands for 1<<63, which the checker's integers cannot hold: the value an
\* amd64 build gives uint64(-Inf); an arm64 build gives 0
Top63 == -1

\* uint64(math.Ceil(math.Log(0)/math.Log(16))): the conversion of -Inf is
\* implementation-dependent
InfToUint64 == {0, Top63}

\* 1 << j for the bit positions j = 0..7 of a byte, at index j + 1
Shl == <<1, 2, 4, 8, 16, 32, 64, 128>>

\* bit j of byte b
BitOf(b, j) == (b \div Shl[j + 1]) % 2

RECURSIVE ByteOrFrom(_, _, _)
ByteOrFrom(a, b, j) ==
    IF j = 8 THEN 0
    ELSE (IF BitOf(a, j) = 1 \/ BitOf(b, j) = 1 THEN Shl[j + 1] ELSE 0)
         + ByteOrFrom(a, b, j + 1)

\* a & b where a | b is meant
ByteOr_And(a, b) == a - (ByteOrFrom(a, b, 0) - b)

\* a | b on bytes
ByteOr(a, b) == ByteOrFrom(a, b, 0)

\* make([]byte, n)
ZeroBytes(n) == [i \in 1..n |-> 0]

\* ---------------------------------------------------------------- hashing

\* byte i (from 0) of the w-byte digest of string s
DigestByte(w, s, i) ==
    ((s + salt) * 97 + i * 57 + w * 11 + s * i * 29 + salt * i * i) % 256

\* size*k in uint64; (1<<63)*k wraps to 1<<63 for odd k and to 0 for even k
MulU64(size, k) ==
    IF size = Top63 THEN (IF k % 2 = 1 THEN Top63 ELSE 0) ELSE size * k

\* hashSize > n in uint64
GtU64(x, n) == x = Top63 \/ x > n

\* the width in bytes of the digest hashingRoutine picks for size*k
HashWidth(size, k) ==
    LET hashSize == MulU64(size, k) IN
    IF GtU64(hashSize, 48) THEN 64
    ELSE IF GtU64(hashSize, 32) THEN 48
    ELSE IF GtU64(hashSize, 20) THEN 32
    ELSE IF GtU64(hashSize, 16) THEN 20
    ELSE 16

\* the condition under which makeHashes panics
MakeHashesPanics(w, size, k) ==
    \/ (LET need == MulU64(size, k) IN need = Top63 \/ w < need)
    \/ GtU64(size, 8)

\* binary.BigEndian.Uint64 of the n digest bytes from position from,
\* left-padded with zeroes
RECURSIVE BigEndian(_, _, _, _)
BigEndian(w, s, from, n) ==
    IF n = 0 THEN 0
    ELSE BigEndian(w, s, from, n - 1) * 256 + DigestByte(w, s, from + n - 1)

\* makeHashes(digest, size, k)[i]
makeHashes(w, s, size, i) == BigEndian(w, s, i * size, size)

\* generateHasher(k, M): the digits captured by the returned closure; inf is
\* what the conversion of -Inf gives when M/k is 0
generateHasher(k, M, inf) ==
    LET minIdx == M \div k IN
    IF minIdx = 0 THEN inf ELSE CeilLog16(minIdx)

\* bf.hasher(s) panics
HasherPanics(f) == MakeHashesPanics(HashWidth(f.digits, f.k), f.digits, f.k)

\* bf.hasher(s)[hid]
Hash(f, s, hid) == makeHashes(HashWidth(f.digits, f.k), s, f.digits, hid)

\* ----------------------------------------------------------------- Filter

\* a *Filter variable that holds no filter
Nil == [nil |-> TRUE]

IsFilter(f) == "nil" \notin DOMAIN f

\* New(size, k), k > 0
New(size, k, inf) ==
    [arr |-> ZeroBytes(size), Size |-> size, k |-> k, inserted |-> 0,
     digits |-> generateHasher(k, size * 8, inf)]

sectionSize(f) == (f.Size * 8) \div f.k

\* the bit index Feed and Match address for partition hid
BitIndex(f, s, hid) ==
    LET sec == sectionSize(f) IN hid * sec + (Hash(f, s, hid) % sec)

\* bf.arr[n/8] is inside the slice
InRange(arr, n) == (n \div 8) + 1 <= Len(arr)

\* bf.isSet(n) for n in range
isSet(arr, n) == BitOf(arr[(n \div 8) + 1], n % 8) = 1

\* byte b with the bits js set as well
RECURSIVE OrBitsFrom(_, _, _)
OrBitsFrom(b, js, j) ==
    IF j = 8 THEN 0
    ELSE (IF BitOf(b, j) = 1 \/ j \in js THEN Shl[j + 1] ELSE 0)
         + OrBitsFrom(b, js, j + 1)

\* setBit with bf.arr[n/8] = (1 << (n % 8)) where |= is meant: a byte that is
\* written keeps only the bit written last, the one of the highest index
setBits_Assign(arr, ns) ==
    [i \in 1..Len(arr) |->
        LET here == {m \in ns : (m \div 8) + 1 = i} IN
        IF here = {} THEN arr[i]
        ELSE Shl[((CHOOSE m \in here : \A o \in here : o <= m) % 8) + 1]]

\* bf.setBit(n) for every n of ns, all in range
setBits(arr, ns) ==
    [i \in 1..Len(arr) |->
        OrBitsFrom(arr[i], {n % 8 : n \in {m \in ns : (m \div 8) + 1 = i}}, 0)]

Min(S) == CHOOSE x \in S : \A y \in S : x <= y

\* the partitions 0..k-1 the loops of Feed and Match go through
Partitions(f) == 0..(f.k - 1)

\* the first partition at which the loop of Match stops, k when it runs to
\* its end: a bit outside the buffer, or a bit that is not set
MatchStop(f, s) ==
    Min({f.k} \cup {hid \in Partitions(f) :
        LET n == BitIndex(f, s, hid) IN ~InRange(f.arr, n) \/ ~isSet(f.arr, n)})

\* bf.Match(s): "true", "false" or "panic"
Match(f, s) ==
    IF HasherPanics(f) THEN "panic"
    ELSE IF sectionSize(f) = 0 THEN "panic"
    ELSE LET stop == MatchStop(f, s) IN
         IF stop = f.k THEN "true"
         ELSE IF ~InRange(f.arr, BitIndex(f, s, stop)) THEN "panic"
         ELSE "false"

\* the first partition whose bit is outside the buffer, k when there is none
FeedStop(f, s) ==
    Min({f.k} \cup {hid \in Partitions(f) : ~InRange(f.arr, BitIndex(f, s, hid))})

\* bf.Feed(s): the filter afterwards and whether the call panicked; the bits
\* of the partitions before a panic stay set
Feed(f, s) ==
    IF HasherPanics(f) THEN [f |-> f, panic |-> TRUE]
    ELSE IF sectionSize(f) = 0 THEN [f |-> f, panic |-> TRUE]
    ELSE LET stop == FeedStop(f, s)
             arr == setBits(f.arr, {BitIndex(f, s, hid) : hid \in 0..(stop - 1)})
         IN  IF stop < f.k THEN [f |-> [f EXCEPT !.arr = arr], panic |-> TRUE]
             ELSE [f |-> [f EXCEPT !.arr = arr, !.inserted = f.inserted + 1],
                   panic |-> FALSE]

\* bf.Reset()
Reset(f) == [f EXCEPT !.arr = ZeroBytes(f.Size)]

\* the loop of Merge with bf.arr[i] = oth.arr[i] where |= is meant
RECURSIVE MergeFrom_Assign(_, _, _, _)
MergeFrom_Assign(arr, oth, size, i) ==
    IF i >= size THEN [arr |-> arr, panic |-> FALSE]
    ELSE IF i + 1 > Len(arr) \/ i + 1 > Len(oth) THEN [arr |-> arr, panic |-> TRUE]
    ELSE MergeFrom_Assign([arr EXCEPT ![i + 1] = oth[i + 1]], oth, size, i + 1)

\* the loop of Merge from byte i (from 0) on
RECURSIVE MergeFrom(_, _, _, _)
MergeFrom(arr, oth, size, i) ==
    IF i >= size THEN [arr |-> arr, panic |-> FALSE]
    ELSE IF i + 1 > Len(arr) \/ i + 1 > Len(oth) THEN [arr |-> arr, panic |-> TRUE]
    ELSE MergeFrom([arr EXCEPT ![i + 1] = ByteOr(@, oth[i + 1])], oth, size, i + 1)

\* Merge without the comparison of the hash counts
Merge_SizeOnly(f, oth) ==
    IF f.Size # oth.Size THEN [f |-> f, res |-> "error"]
    ELSE LET r == MergeFrom(f.arr, oth.arr, f.Size, 0) IN
         [f |-> [f EXCEPT !.arr = r.arr],
          res |-> IF r.panic THEN "panic" ELSE "ok"]

\* Merge that adds the other filter's inserted counter to the receiver's
Merge_SumsInserted(f, oth) ==
    IF f.Size # oth.Size THEN [f |-> f, res |-> "error"]
    ELSE IF f.k # oth.k THEN [f |-> f, res |-> "error"]
    ELSE LET r == MergeFrom(f.arr, oth.arr, f.Size, 0) IN
         [f |-> [f EXCEPT !.arr = r.arr, !.inserted = @ + oth.inserted],
          res |-> IF r.panic THEN "panic" ELSE "ok"]

\* bf.Merge(oth): the receiver afterwards and "ok", "error" or "panic"
Merge(f, oth) ==
    IF f.Size # oth.Size THEN [f |-> f, res |-> "error"]
    ELSE IF f.k # oth.k THEN [f |-> f, res |-> "error"]
    ELSE LET r == MergeFrom(f.arr, oth.arr, f.Size, 0) IN
         [f |-> [f EXCEPT !.arr = r.arr],
          res |-> IF r.panic THEN "panic" ELSE "ok"]

\* popcount(uint64(x)) for a byte x
RECURSIVE popcountFrom(_, _)
popcountFrom(x, j) == IF j = 8 THEN 0 ELSE BitOf(x, j) + popcountFrom(x, j + 1)

popcount(x) == popcountFrom(x, 0)

\* popcntSliceGo(s) from position i (from 1) on
RECURSIVE popcntSliceFrom(_, _)
popcntSliceFrom(s, i) ==
    IF i > Len(s) THEN 0 ELSE popcount(s[i]) + popcntSliceFrom(s, i + 1)

popcntSliceGo(s) == popcntSliceFrom(s, 1)

\* bf.FillRatio(): the two operands of the float division, set bits over
\* Size*8; the quotient is NaN for 0/0 and +Inf for n/0
FillRatio(f) == [bits |-> popcntSliceGo(f.arr), total |-> f.Size * 8]

\* the quotient is 0
RatioIsZero(r) == r.total > 0 /\ r.bits = 0

\* the quotient is in [0,1]
RatioInUnit(r) == r.total > 0 /\ r.bits <= r.total

\* ---------------------------------------------------------- serialization

\* the characters of a base64 text are numbered 0..63; Pad is '='
Pad == 64

\* base64.StdEncoding's text for the bytes of arr from position i (from 1) on
RECURSIVE Base64From(_, _)
Base64From(arr, i) ==
    LET n == Len(arr) - i + 1 IN
    IF n <= 0 THEN <<>>
    ELSE IF n = 1 THEN
        <<arr[i] \div 4, (arr[i] % 4) * 16, Pad, Pad>>
    ELSE IF n = 2 THEN
        <<arr[i] \div 4, (arr[i] % 4) * 16 + (arr[i + 1] \div 16),
          (arr[i + 1] % 16) * 4, Pad>>
    ELSE
        <<arr[i] \div 4, (arr[i] % 4) * 16 + (arr[i + 1] \div 16),
          (arr[i + 1] % 16) * 4 + (arr[i + 2] \div 64), arr[i + 2] % 64>>
        \o Base64From(arr, i + 3)

\* what json.Marshal writes for a []byte
Base64Encode(arr) == Base64From(arr, 1)

\* base64.StdEncoding.DecodeString from character i (from 1) on: the bytes and
\* whether the text is corrupt
RECURSIVE Base64DecodeFrom(_, _)
Base64DecodeFrom(txt, i) ==
    IF i > Len(txt) THEN [bytes |-> <<>>, err |-> FALSE]
    ELSE IF i + 3 > Len(txt) THEN [bytes |-> <<>>, err |-> TRUE]
    ELSE
        LET a == txt[i]
            b == txt[i + 1]
            c == txt[i + 2]
            d == txt[i + 3]
            final == i + 3 = Len(txt)
        IN
        IF a = Pad \/ b = Pad THEN [bytes |-> <<>>, err |-> TRUE]
        ELSE IF c = Pad THEN
            IF d = Pad /\ final
            THEN [bytes |-> <<a * 4 + (b \div 16)>>, err |-> FALSE]
            ELSE [bytes |-> <<>>, err |-> TRUE]
        ELSE IF d = Pad THEN
            IF final
            THEN [bytes |-> <<a * 4 + (b \div 16), (b % 16) * 16 + (c \div 4)>>,
                  err |-> FALSE]
            ELSE [bytes |-> <<>>, err |-> TRUE]
        ELSE
            LET rest == Base64DecodeFrom(txt, i + 4) IN
            [bytes |-> <<a * 4 + (b \div 16), (b % 16) * 16 + (c \div 4),
                         (c % 4) * 64 + d>> \o rest.bytes,
             err |-> rest.err]

Base64Decode(txt) == Base64DecodeFrom(txt, 1)

\* the values of a decoded JSON object: a number, a string, or no entry
JNum(n) == [t |-> "num", n |-> n, s |-> <<>>]
JStr(s) == [t |-> "str", n |-> 0, s |-> s]
JNone == [t |-> "none", n |-> 0, s |-> <<>>]

\* bf.ToJSON(): the snapshot, as json.Unmarshal will read it back
ToJSON(f) ==
    [wellformed |-> TRUE, tamper |-> "",
     Size |-> JNum(f.Size), K |-> JNum(f.k), Inserted |-> JNum(f.inserted),
     Arr |-> JStr(Base64Encode(f.arr))]

\* FromJSON without the assignment of bf.inserted
FromJSON_NoInserted(j, inf) ==
    IF ~j.wellformed THEN [res |-> "error", f |-> Nil]
    ELSE IF j.Size.t # "num" \/ j.K.t # "num" THEN [res |-> "panic", f |-> Nil]
    ELSE IF j.K.n = 0 THEN [res |-> "panic", f |-> Nil]
    ELSE IF j.Inserted.t # "num" THEN [res |-> "panic", f |-> Nil]
    ELSE IF j.Arr.t # "str" THEN [res |-> "panic", f |-> Nil]
    ELSE LET n == Base64Decode(j.Arr.s) IN
         IF n.err THEN [res |-> "error", f |-> Nil]
         ELSE [res |-> "ok", f |-> [New(j.Size.n, j.K.n, inf) EXCEPT !.arr = n.bytes]]

\* FromJSON(raw): "ok" with the filter, "error", or "panic"
FromJSON(j, inf) ==
    IF ~j.wellformed THEN [res |-> "error", f |-> Nil]
    ELSE IF j.Size.t # "num" \/ j.K.t # "num" THEN [res |-> "panic", f |-> Nil]
    ELSE IF j.K.n = 0 THEN [res |-> "panic", f |-> Nil]
    ELSE IF j.Inserted.t # "num" THEN [res |-> "panic", f |-> Nil]
    ELSE IF j.Arr.t # "str" THEN [res |-> "panic", f |-> Nil]
    ELSE LET n == Base64Decode(j.Arr.s) IN
         IF n.err THEN [res |-> "error", f |-> Nil]
         ELSE [res |-> "ok",
               f |-> [New(j.Size.n, j.K.n, inf) EXCEPT
                         !.inserted = j.Inserted.n, !.arr = n.bytes]]

\* the ways a snapshot gets damaged between export and import
Tampers == {"syntax", "noSize", "kString", "arrNumber", "arrCut",
            "arrTruncated", "sizeGrown", "arrGrown"}

DropLast(s, n) == SubSeq(s, 1, Len(s) - n)

Tamper(j, how) ==
    [j EXCEPT
       !.tamper = how,
       !.wellformed = (how # "syntax"),
       !.Size = IF how = "noSize" THEN JNone
                ELSE IF how = "sizeGrown" THEN JNum(j.Size.n + 1)
                ELSE @,
       !.K = IF how = "kString" THEN JStr(<<j.K.n % 64>>) ELSE @,
       !.Arr = IF how = "arrNumber" THEN JNum(0)
               ELSE IF how = "arrCut" THEN JStr(DropLast(j.Arr.s, 1))
               ELSE IF how = "arrTruncated" THEN JStr(DropLast(j.Arr.s, 4))
               ELSE IF how = "arrGrown"
                    THEN JStr(Base64Encode(Base64Decode(j.Arr.s).bytes \o <<255>>))
               ELSE @]

\* ---------------------------------------------------------- ScalableFilter

\* the false-positive targets and tightening ratios are powers of two,
\* p = 2^-pExp and r = 2^-rExp, on which the float arithmetic is exact

\* hashCountForFP(2^-pExp)
hashCountForFP(pExp) == pExp

\* uint64(float64(size) * s) for the growth rate s = num/den
GrownSize(size, s) == (size * s[1]) \div s[2]

\* bf.EstimateFillRatio() > 0.3, that is (1 - k/(Size*8))^inserted < 0.7;
\* math.Pow(x, 0) is 1 for every x
EstimateAboveThreshold(f) ==
    /\ f.inserted > 0
    /\ 10 * Pow(f.Size * 8 - f.k, f.inserted) < 7 * Pow(f.Size * 8, f.inserted)

\* NewScalable(p, s, m0, r), hashCountForFP(p) > 0
NewScalable(pExp, s, m0, rExp, inf) ==
    [s |-> s, pExp |-> pExp, m0 |-> m0, rExp |-> rExp,
     filters |-> <<New(m0, hashCountForFP(pExp), inf)>>]

\* a growth step that drops the chain instead of keeping it behind the new
\* filter
Grow_Replacing(sb, inf) ==
    LET p == sb.pExp + sb.rExp IN
    [sb EXCEPT
       !.pExp = p,
       !.filters = <<New(GrownSize(sb.filters[1].Size, sb.s), hashCountForFP(p), inf)>>]

\* a growth step that computes the hash count before it tightens the target
Grow_StaleTarget(sb, inf) ==
    [sb EXCEPT
       !.pExp = sb.pExp + sb.rExp,
       !.filters = <<New(GrownSize(sb.filters[1].Size, sb.s),
                         hashCountForFP(sb.pExp), inf)>> \o sb.filters]

\* the growth step of ScalableFilter.Feed
Grow(sb, inf) ==
    LET p == sb.pExp + sb.rExp IN
    [sb EXCEPT
       !.pExp = p,
       !.filters = <<New(GrownSize(sb.filters[1].Size, sb.s), hashCountForFP(p), inf)>>
                   \o sb.filters]

\* sbf.Feed(s) that feeds the filter that was active at the call and grows
\* the chain afterwards
ScalableFeed_BeforeGrowth(sb, s, inf) ==
    LET r == Feed(sb.filters[1], s)
        f == [sb EXCEPT !.filters[1] = r.f]
    IN  [sb |-> IF EstimateAboveThreshold(sb.filters[1]) THEN Grow(f, inf) ELSE f,
         panic |-> r.panic]

\* sbf.Feed(s): the scalable filter afterwards and whether the call panicked
ScalableFeed(sb, s, inf) ==
    LET g == IF EstimateAboveThreshold(sb.filters[1]) THEN Grow(sb, inf) ELSE sb
        r == Feed(g.filters[1], s)
    IN  [sb |-> [g EXCEPT !.filters[1] = r.f], panic |-> r.panic]

\* the loop of ScalableFilter.Match going up from index 0 where the code
\* goes down from the last index; hid is the number of sub-filters left
RECURSIVE ScalableMatchFrom_NewestFirst(_, _, _)
ScalableMatchFrom_NewestFirst(sb, s, hid) ==
    IF hid < 1 THEN [res |-> "false", seen |-> <<>>]
    ELSE LET i == Len(sb.filters) - hid + 1
             m == Match(sb.filters[i], s)
         IN  IF m = "false"
             THEN LET r == ScalableMatchFrom_NewestFirst(sb, s, hid - 1) IN
                  [res |-> r.res, seen |-> <<i>> \o r.seen]
             ELSE [res |-> m, seen |-> <<i>>]

\* the loop of ScalableFilter.Match at index hid (from 1; the loop counts
\* down): its result and the indices of the sub-filters it called Match on,
\* in the order of the calls
RECURSIVE ScalableMatchFrom(_, _, _)
ScalableMatchFrom(sb, s, hid) ==
    IF hid < 1 THEN [res |-> "false", seen |-> <<>>]
    ELSE LET m == Match(sb.filters[hid], s) IN
         IF m = "false"
         THEN LET r == ScalableMatchFrom(sb, s, hid - 1) IN
              [res |-> r.res, seen |-> <<hid>> \o r.seen]
         ELSE [res |-> m, seen |-> <<hid>>]

\* sbf.Match(s): "true", "false" or "panic"
ScalableMatch(sb, s) == ScalableMatchFrom(sb, s, Len(sb.filters)).res

\* the sub-filters sbf.Match(s) consults, in order (index 1 is filters[0])
ScalableMatchConsulted(sb, s) == ScalableMatchFrom(sb, s, Len(sb.filters)).seen

\* ---------------------------------------------------------------- actions

\* the call made last and how it ended: "ok", "true", "false", "error" (an
\* error value was returned) or "panic"
Call(op, f, s, size, k, res) ==
    [op |-> op, f |-> f, s |-> s, size |-> size, k |-> k, res |-> res]

NoCall == Call("none", "-", 0, 0, 0, "ok")

Running == status = "running"

\* an unrecovered panic ends the process
Outcome(res) == status' = IF res = "panic" THEN "panicked" ELSE "running"

\* json and cpy are the locals of one export/import; the next call on a
\* filter is made after they went out of scope
EndRoundTrip == json' = Nil /\ cpy' = Nil

Init ==
    /\ filt = [n \in Names |-> Nil]
    /\ fed = [n \in Names |-> {}]
    /\ last = NoCall
    /\ status = "running"
    /\ salt \in Salts
    /\ json = Nil
    /\ cpy = Nil
    /\ sbf = Nil
    /\ sfed = {}

\* n = New(size, k); generateHasher divides by k
DoNew(n, size, k, inf) ==
    /\ Running
    /\ ~IsFilter(filt[n])
    /\ LET res == IF k = 0 THEN "panic" ELSE "ok" IN
       /\ filt' = IF k = 0 THEN filt ELSE [filt EXCEPT ![n] = New(size, k, inf)]
       /\ last' = Call("New", n, 0, size, k, res)
       /\ Outcome(res)
    /\ EndRoundTrip
    /\ UNCHANGED <<fed, salt, sbf, sfed>>

\* n.Feed(s)
DoFeed(n, s) ==
    /\ Running
    /\ IsFilter(filt[n])
    /\ filt[n].inserted < MaxFeeds
    /\ LET r == Feed(filt[n], s)
           res == IF r.panic THEN "panic" ELSE "ok"
       IN
       /\ filt' = [filt EXCEPT ![n] = r.f]
       /\ fed' = IF r.panic THEN fed ELSE [fed EXCEPT ![n] = @ \cup {s}]
       /\ last' = Call("Feed", n, s, 0, 0, res)
       /\ Outcome(res)
    /\ EndRoundTrip
    /\ UNCHANGED <<salt, sbf, sfed>>

\* n.Match(s)
DoMatch(n, s) ==
    /\ Running
    /\ IsFilter(filt[n])
    /\ LET res == Match(filt[n], s) IN
       /\ last' = Call("Match", n, s, 0, 0, res)
       /\ Outcome(res)
    /\ EndRoundTrip
    /\ UNCHANGED <<filt, fed, salt, sbf, sfed>>

\* n.Merge(o)
DoMerge(n, o) ==
    /\ Running
    /\ IsFilter(filt[n]) /\ IsFilter(filt[o])
    /\ LET r == Merge(filt[n], filt[o]) IN
       /\ filt' = [filt EXCEPT ![n] = r.f]
       /\ fed' = IF r.res = "ok" THEN [fed EXCEPT ![n] = @ \cup fed[o]] ELSE fed
       /\ last' = Call("Merge", n, 0, 0, 0, r.res)
       /\ Outcome(r.res)
    /\ EndRoundTrip
    /\ UNCHANGED <<salt, sbf, sfed>>

\* n.Reset()
DoReset(n) ==
    /\ Running
    /\ IsFilter(filt[n])
    /\ filt' = [filt EXCEPT ![n] = Reset(filt[n])]
    /\ fed' = [fed EXCEPT ![n] = {}]
    /\ last' = Call("Reset", n, 0, 0, 0, "ok")
    /\ EndRoundTrip
    /\ UNCHANGED <<status, salt, sbf, sfed>>

\* raw, _ := n.ToJSON()
DoToJSON(n) ==
    /\ Running
    /\ IsFilter(filt[n])
    /\ last.op # "ToJSON"
    /\ json' = ToJSON(filt[n])
    /\ cpy' = Nil
    /\ last' = Call("ToJSON", n, 0, 0, 0, "ok")
    /\ UNCHANGED <<filt, fed, status, salt, sbf, sfed>>

\* the snapshot is damaged on its way
DoTamper(how) ==
    /\ Running
    /\ last.op = "ToJSON"
    /\ json.tamper = ""
    /\ json' = Tamper(json, how)
    /\ UNCHANGED <<filt, fed, last, status, salt, cpy, sbf, sfed>>

\* cpy, err := FromJSON(raw)
DoFromJSON(inf) ==
    /\ Running
    /\ last.op = "ToJSON"
    /\ LET r == FromJSON(json, inf) IN
       /\ cpy' = r.f
       /\ last' = Call("FromJSON", last.f, 0, 0, 0, r.res)
       /\ Outcome(r.res)
    /\ UNCHANGED <<filt, fed, salt, json, sbf, sfed>>

\* the <<size, k>> the second filter is built with, once the first exists
OtherChoices ==
    IF IsFilter(filt["A"])
    THEN OtherConfigs \cup {<<filt["A"].Size, filt["A"].k>>}
    ELSE {}

\* one Filter, its export and its import
Next ==
    \/ \E c \in Configs, inf \in InfToUint64 : DoNew("A", c[1], c[2], inf)
    \/ \E s \in Strings : DoFeed("A", s)
    \/ \E s \in Strings : DoMatch("A", s)
    \/ DoReset("A")
    \/ DoToJSON("A")
    \/ \E how \in Tampers : DoTamper(how)
    \/ \E inf \in InfToUint64 : DoFromJSON(inf)

Spec == Init /\ [][Next]_vars

\* two Filters, one merged into the other, and the export and import of the
\* merged one
NextMerge ==
    \/ \E c \in MergeConfigs, inf \in InfToUint64 : DoNew("A", c[1], c[2], inf)
    \/ \E c \in OtherChoices, inf \in InfToUint64 : DoNew("B", c[1], c[2], inf)
    \/ \E n \in Names, s \in Strings : DoFeed(n, s)
    \/ \E s \in Strings : DoMatch("A", s)
    \/ DoMerge("A", "B")
    \/ DoReset("A")
    \/ DoToJSON("A")
    \/ \E inf \in InfToUint64 : DoFromJSON(inf)

SpecMerge == Init /\ [][NextMerge]_vars

\* ------------------------------------------------- ScalableFilter actions

RECURSIVE SumInserted(_, _)
SumInserted(fs, i) == IF i > Len(fs) THEN 0 ELSE fs[i].inserted + SumInserted(fs, i + 1)

\* sbf = NewScalable(p, s, m0, r); New divides by hashCountForFP(p)
DoNewScalable(pExp, s, m0, rExp, inf) ==
    /\ Running
    /\ ~IsFilter(sbf)
    /\ LET res == IF hashCountForFP(pExp) = 0 THEN "panic" ELSE "ok" IN
       /\ sbf' = IF res = "panic" THEN sbf ELSE NewScalable(pExp, s, m0, rExp, inf)
       /\ last' = Call("NewScalable", "S", 0, m0, hashCountForFP(pExp), res)
       /\ Outcome(res)
    /\ UNCHANGED <<filt, fed, salt, json, cpy, sfed>>

\* sbf.Feed(s)
DoScalableFeed(s, inf) ==
    /\ Running
    /\ IsFilter(sbf)
    /\ SumInserted(sbf.filters, 1) < MaxSFeeds
    /\ LET r == ScalableFeed(sbf, s, inf)
           res == IF r.panic THEN "panic" ELSE "ok"
       IN
       /\ sbf' = r.sb
       /\ sfed' = IF r.panic THEN sfed ELSE sfed \cup {s}
       /\ last' = Call("ScalableFeed", "S", s, 0, 0, res)
       /\ Outcome(res)
    /\ UNCHANGED <<filt, fed, salt, json, cpy>>

\* sbf.Match(s)
DoScalableMatch(s) ==
    /\ Running
    /\ IsFilter(sbf)
    /\ LET res == ScalableMatch(sbf, s) IN
       /\ last' = Call("ScalableMatch", "S", s, 0, 0, res)
       /\ Outcome(res)
    /\ UNCHANGED <<filt, fed, salt, json, cpy, sbf, sfed>>

NextScalable ==
    \/ \E c \in ScalableConfigs, inf \in InfToUint64 :
          DoNewScalable(c[1], c[2], c[3], c[4], inf)
    \/ \E s \in Strings, inf \in InfToUint64 : DoScalableFeed(s, inf)
    \/ \E s \in Strings : DoScalableMatch(s)

SpecScalable == Init /\ [][NextScalable]_vars

\* ----------------------------------------------------------------- claims

\* C1: on every Filter built by New(size, k) with size >= 1 and k >= 1,
\* Feed(s) returns and Match(s) right after it returns true.
C1_FeedThenMatch ==
    (last.op = "Feed" /\ filt[last.f].Size >= 1 /\ filt[last.f].k >= 1)
        => (last.res = "ok" /\ Match(filt[last.f], last.s) = "true")

\* Every string whose Feed returned matches for as long as the filter is not
\* reset (what C1 says, for the calls that return).
FedStringsMatch ==
    \A n \in Names : \A s \in fed[n] : Match(filt[n], s) = "true"

\* C2: every Feed on a ScalableFilter returns, and afterwards Match returns
\* true for every string passed to Feed so far, growth events or not.
C2_ScalableFeedThenMatch ==
    /\ last.op = "ScalableFeed" => last.res = "ok"
    /\ IsFilter(sbf) =>
          \A s \in sfed \cup (IF last.op = "ScalableFeed" THEN {last.s} ELSE {}) :
              ScalableMatch(sbf, s) = "true"

\* Every string whose ScalableFilter.Feed returned matches ever after, also
\* in the state a panicking Feed leaves behind.
ScalableFedStringsMatch ==
    IsFilter(sbf) => \A s \in sfed : ScalableMatch(sbf, s) = "true"

\* C3: a Filter that New just returned, or that was just Reset, returns false
\* from Match(s) for every string s.
C3_EmptyFilterMatchesNothing ==
    (last.op \in {"New", "Reset"} /\ last.res = "ok")
        => \A s \in Strings : Match(filt[last.f], s) = "false"

\* C4: after a Merge of B into A that succeeded, A matches every string that
\* was fed into A or into B before.
C4_MergeKeepsMembers ==
    (last.op = "Merge" /\ last.res = "ok")
        => \A x \in fed["A"] \cup fed["B"] : Match(filt["A"], x) = "true"

\* a successful merge of a filter holding one string into a filter holding
\* another
C4_Witness ==
    /\ last.op = "Merge" /\ last.res = "ok"
    /\ Cardinality(fed["B"]) = 1
    /\ Cardinality(fed["A"]) = 2
    /\ filt["A"].inserted = 1

\* C5: a Merge of filters that differ in size or in k returns an error and
\* changes nothing in either filter (bits, size, k, inserted counter).
C5_MergeRejectsMismatch ==
    [][(DoMerge("A", "B")
          /\ (filt["A"].Size # filt["B"].Size \/ filt["A"].k # filt["B"].k))
       => (last'.res = "error" /\ filt' = filt)]_vars

\* a rejected merge of two filters that both hold something
C5_Witness ==
    /\ last.op = "Merge" /\ last.res = "error"
    /\ filt["A"].Size = filt["B"].Size
    /\ filt["A"].inserted > 0 /\ filt["B"].inserted > 0

\* C6: FromJSON(ToJSON(f)) succeeds and gives a Filter with f's size, k,
\* inserted counter and bytes, whose Match answers as f's does.
C6_RoundTrip ==
    (last.op = "FromJSON" /\ json.tamper = "")
        => /\ last.res = "ok"
           /\ IsFilter(cpy)
           /\ cpy.Size = filt["A"].Size
           /\ cpy.k = filt["A"].k
           /\ cpy.inserted = filt["A"].inserted
           /\ cpy.arr = filt["A"].arr
           /\ \A s \in Strings : Match(cpy, s) = Match(filt["A"], s)

\* the import of the export of a filter that was fed, merged into, and that
\* matches one string and not another
C6_Witness ==
    /\ last.op = "FromJSON" /\ last.res = "ok"
    /\ filt["A"].inserted > 0
    /\ IsFilter(filt["B"]) /\ fed["B"] # {} /\ fed["B"] \subseteq fed["A"]
    /\ \E s \in Strings : Match(cpy, s) = "true"
    /\ \E s \in Strings : Match(cpy, s) = "false"

\* the k hashes of New(size, k) need more digest bytes than a digest has, or
\* one hash more than 8 bytes
CapacityExceeded(size, k) ==
    /\ k >= 1
    /\ (size * 8) \div k >= 1
    /\ LET d == CeilLog16((size * 8) \div k) IN d * k > 64 \/ d > 8

\* C7: New returns an error when the hashes exceed the digests' capacity, and
\* no Feed or Match on a filter ends in a panic.
C7_CapacityErrorsReturned ==
    /\ (last.op = "New" /\ CapacityExceeded(last.size, last.k)) => last.res = "error"
    /\ last.op \in {"Feed", "Match"} => last.res # "panic"

\* C8: importing a damaged snapshot returns an error and no Filter.
C8_MalformedImportFails ==
    (last.op = "FromJSON" /\ json.tamper # "")
        => (last.res = "error" /\ ~IsFilter(cpy))

\* C9: New(size, k) with size = 0, k = 0 or size*8 < k returns an error.
C9_NewRejectsBadConfig ==
    (last.op = "New" /\ (last.size = 0 \/ last.k = 0 \/ last.size * 8 < last.k))
        => last.res = "error"

\* C10: the chain of a ScalableFilter is never empty and never gets shorter;
\* Feed makes it longer, by one, exactly when the filter at index 0 has
\* EstimateFillRatio() > 0.3 at the call; Match leaves the chain as it is.
C10_GrowthMonotone ==
    [][/\ IsFilter(sbf') => Len(sbf'.filters) >= 1
       /\ IsFilter(sbf) =>
             (IsFilter(sbf') /\ Len(sbf'.filters) >= Len(sbf.filters))
       /\ \A s \in Strings, inf \in InfToUint64 :
             DoScalableFeed(s, inf) =>
                Len(sbf'.filters) = Len(sbf.filters)
                    + (IF EstimateAboveThreshold(sbf.filters[1]) THEN 1 ELSE 0)
       /\ \A s \in Strings : DoScalableMatch(s) => sbf' = sbf]_vars

\* a Feed that returned without growing a chain that had grown before
C10_Witness ==
    /\ last.op = "ScalableFeed" /\ last.res = "ok"
    /\ Len(sbf.filters) = 2
    /\ sbf.filters[1].inserted = 2

\* C11: for two Filters of equal size and k, A.Merge(B) and B.Merge(A), each
\* run on the same starting states, both succeed and leave their receivers
\* with identical bytes, which answer Match identically for every string.
C11_MergeSymmetric ==
    (/\ IsFilter(filt["A"]) /\ IsFilter(filt["B"])
     /\ filt["A"].Size = filt["B"].Size /\ filt["A"].k = filt["B"].k)
        => LET ab == Merge(filt["A"], filt["B"])
               ba == Merge(filt["B"], filt["A"])
           IN  /\ ab.res = "ok" /\ ba.res = "ok"
               /\ ab.f.arr = ba.f.arr
               /\ \A s \in Strings : Match(ab.f, s) = Match(ba.f, s)

\* two mergeable filters fed different strings, whose union differs from both
C11_Witness ==
    /\ IsFilter(filt["A"]) /\ IsFilter(filt["B"])
    /\ filt["A"].Size = filt["B"].Size /\ filt["A"].k = filt["B"].k
    /\ fed["A"] # {} /\ fed["B"] # {} /\ fed["A"] \cap fed["B"] = {}
    /\ Merge(filt["A"], filt["B"]).f.arr \notin {filt["A"].arr, filt["B"].arr}
    /\ \E s \in Strings : Match(Merge(filt["B"], filt["A"]).f, s) = "true"

\* C12: for every Filter that New or FromJSON returned, whatever was called
\* on it since, FillRatio() is in [0,1] (the set bits counted are at most
\* size*8); and FillRatio() is 0 right after Reset().
C12_FillRatioBounds ==
    /\ \A f \in {filt["A"], cpy} : IsFilter(f) => RatioInUnit(FillRatio(f))
    /\ last.op = "Reset" => RatioIsZero(FillRatio(filt[last.f]))

\* FillRatio() is in [0,1], and 0 after Reset(), on every filter of at least
\* one byte that New built or that was imported from an undamaged snapshot.
FillRatioInUnitWhereSized ==
    /\ \A f \in {filt["A"], filt["B"]} \cup
                 (IF IsFilter(cpy) /\ json.tamper = "" THEN {cpy} ELSE {}) :
          (IsFilter(f) /\ f.Size >= 1) => RatioInUnit(FillRatio(f))
    /\ (last.op = "Reset" /\ filt[last.f].Size >= 1)
          => RatioIsZero(FillRatio(filt[last.f]))

\* No imported filter of at least one byte counts more set bits than size*8.
\* It does not hold: FromJSON takes a buffer longer than Size as it comes.
ImportNeverOverfull ==
    ~(IsFilter(cpy) /\ cpy.Size >= 1 /\ FillRatio(cpy).bits > FillRatio(cpy).total)

\* every bit set in the buffer a is set in the buffer b
BitsKept(a, b) ==
    /\ Len(a) = Len(b)
    /\ \A n \in 0..(Len(a) * 8 - 1) : isSet(a, n) => isSet(b, n)

\* C13: a string that was fed into a Filter (by Feed, or by the Merge of a
\* filter that held it) matches after every further call until the filter is
\* Reset; a Feed or a Merge, accepted or rejected, clears no bit that is set.
\* Stated of every step that changes the filter or what it was fed: the
\* strings fed so far match afterwards.
C13_FedStaysFed ==
    [][\A n \in Names :
         (IsFilter(filt'[n]) /\ <<filt'[n], fed'[n]>> # <<filt[n], fed[n]>>) =>
            /\ \A s \in fed'[n] : Match(filt'[n], s) = "true"
            /\ (IsFilter(filt[n]) /\ last'.op \in {"Feed", "Merge"}) =>
                  /\ fed[n] \subseteq fed'[n]
                  /\ BitsKept(filt[n].arr, filt'[n].arr)]_vars

\* a Feed into a filter that holds a string a Merge brought
C13_Witness ==
    /\ last.op = "Feed" /\ last.f = "A" /\ last.res = "ok"
    /\ Cardinality(fed["A"]) >= 2
    /\ filt["A"].inserted = 1
    /\ last.s \notin fed["B"]

\* C14: a Feed on a ScalableFilter changes only the sub-filter that is at
\* index 0 after the growth step, if there was one: that one takes the string,
\* every older sub-filter keeps its bytes, size, k and inserted counter, and no
\* sub-filter changes its size or k.
C14_FeedWritesNewestOnly ==
    [][\A s \in Strings, inf \in InfToUint64 :
         DoScalableFeed(s, inf) =>
            LET d == Len(sbf'.filters) - Len(sbf.filters) IN
            /\ \A i \in 1..Len(sbf.filters) :
                  /\ sbf'.filters[i + d].Size = sbf.filters[i].Size
                  /\ sbf'.filters[i + d].k = sbf.filters[i].k
                  /\ i + d >= 2 => sbf'.filters[i + d] = sbf.filters[i]
            /\ last'.res = "ok" =>
                  /\ Match(sbf'.filters[1], s) = "true"
                  /\ sbf'.filters[1].inserted =
                        (IF d = 0 THEN sbf.filters[1].inserted ELSE 0) + 1]_vars

\* a Feed that returned on a chain of three sub-filters, each of which took
\* a string in its time
C14_Witness ==
    /\ last.op = "ScalableFeed" /\ last.res = "ok"
    /\ Len(sbf.filters) = 3
    /\ \A i \in 1..3 : sbf.filters[i].inserted >= 1

\* C15: a growth step first multiplies the target rate by r (adds rExp to the
\* exponent), then puts at index 0, before the sub-filters there were, in
\* their order, a filter whose size is the size of the one that was active
\* times s (the integer part of it) and whose hash count is
\* ceil(log2(1/target)) of the target already tightened, which is the
\* exponent; with s = 2 the sub-filter at distance i from the oldest has
\* size m0 * 2^i.
C15_GrowthParameters ==
    [][\A s \in Strings, inf \in InfToUint64 :
         (DoScalableFeed(s, inf) /\ Len(sbf'.filters) > Len(sbf.filters)) =>
            LET new == sbf'.filters[1]
                old == sbf.filters[1]
                n == Len(sbf'.filters)
            IN  /\ sbf'.pExp = sbf.pExp + sbf.rExp
                /\ new.Size * sbf.s[2] <= old.Size * sbf.s[1]
                /\ old.Size * sbf.s[1] < (new.Size + 1) * sbf.s[2]
                /\ new.k = sbf'.pExp
                /\ Tail(sbf'.filters) = sbf.filters
                /\ <<sbf'.s, sbf'.m0, sbf'.rExp>> = <<sbf.s, sbf.m0, sbf.rExp>>
                /\ sbf.s = <<2, 1>> =>
                      \A i \in 0..(n - 1) :
                          sbf'.filters[n - i].Size = sbf.m0 * Pow(2, i)]_vars

\* the Feed that grew a chain with s = 2: the new filter is twice as large
\* and has more hashes
C15_Witness ==
    /\ last.op = "ScalableFeed" /\ last.res = "ok"
    /\ sbf.s = <<2, 1>> /\ sbf.rExp >= 1
    /\ Len(sbf.filters) = 2
    /\ sbf.filters[1].inserted = 1
    /\ sbf.filters[1].Size = 2 * sbf.filters[2].Size
    /\ sbf.filters[1].k > sbf.filters[2].k

\* the sub-filters that answer s with something else than false
Answering(sb, s) == {i \in 1..Len(sb.filters) : Match(sb.filters[i], s) # "false"}

\* C16 as stated: Match(s) on a ScalableFilter is true exactly when some
\* sub-filter matches s, and it consults the sub-filters from the newest
\* (index 0) towards the oldest, up to the first that matches and no further.
C16_MatchNewestFirst ==
    IsFilter(sbf) =>
        \A s \in Strings :
            /\ ScalableMatch(sbf, s) = "true"
                  <=> \E i \in 1..Len(sbf.filters) : Match(sbf.filters[i], s) = "true"
            /\ LET stop == Min({Len(sbf.filters)} \cup Answering(sbf, s)) IN
               ScalableMatchConsulted(sbf, s) = [i \in 1..stop |-> i]

\* C16 as amended: Match(s) on a ScalableFilter is true exactly when some
\* sub-filter matches s, and it consults the sub-filters from the oldest (the
\* last index) towards the newest (index 0), up to the first that matches and
\* no further.
C16_MatchOldestFirst ==
    IsFilter(sbf) =>
        \A s \in Strings :
            /\ ScalableMatch(sbf, s) = "true"
                  <=> \E i \in 1..Len(sbf.filters) : Match(sbf.filters[i], s) = "true"
            /\ LET n == Len(sbf.filters)
                   stop == CHOOSE i \in {1} \cup Answering(sbf, s) :
                               \A j \in {1} \cup Answering(sbf, s) : j <= i
               IN  ScalableMatchConsulted(sbf, s) = [i \in 1..(n - stop + 1) |-> n - i + 1]

\* a Match that returned true for a string the oldest of several sub-filters
\* holds and the newest does not
C16_Witness ==
    /\ last.op = "ScalableMatch" /\ last.res = "true"
    /\ Len(sbf.filters) >= 2
    /\ Match(sbf.filters[Len(sbf.filters)], last.s) = "true"
    /\ Match(sbf.filters[1], last.s) = "false"
    /\ \E s \in Strings : Len(ScalableMatchConsulted(sbf, s)) >= 2

\* Feed(s) and Match(s) on the filter f address one bit in each of the k
\* partitions, inside the partition and inside the buffer; Feed sets these
\* bits and no other, and Match answers whether all of them are set
OneBitPerPartition(f, s) ==
    /\ ~HasherPanics(f)
    /\ sectionSize(f) >= 1
    /\ \A hid \in Partitions(f) :
          LET n == BitIndex(f, s, hid) IN
          /\ hid * sectionSize(f) <= n /\ n < (hid + 1) * sectionSize(f)
          /\ n < f.Size * 8
          /\ InRange(f.arr, n)
    /\ LET idx == {BitIndex(f, s, hid) : hid \in Partitions(f)}
           r == Feed(f, s)
       IN  /\ ~r.panic
           /\ Len(r.f.arr) = Len(f.arr)
           /\ \A n \in 0..(Len(f.arr) * 8 - 1) :
                 isSet(r.f.arr, n) <=> (isSet(f.arr, n) \/ n \in idx)
           /\ popcntSliceGo(r.f.arr) <= popcntSliceGo(f.arr) + f.k
           /\ Match(f, s) = (IF \A n \in idx : isSet(f.arr, n) THEN "true" ELSE "false")
           /\ Match(r.f, s) = "true"

\* C17: on every Filter, Feed(s) sets one bit per partition i, at
\* i*sectionSize + (hash[i] mod sectionSize), which lies in the partition and
\* below size*8; it sets at most k bits, addresses no bit outside the buffer,
\* and Match(s) tests the same k bits.
C17_FeedOneBitPerPartition ==
    \A f \in {filt["A"], cpy} :
        IsFilter(f) => \A s \in Strings : OneBitPerPartition(f, s)

\* What C17 says holds on every filter whose configuration C7 and C9 would
\* let New accept and whose buffer has Size bytes.
OneBitPerPartitionWhereFeasible ==
    \A f \in {filt["A"], filt["B"], cpy} :
        (/\ IsFilter(f)
         /\ f.k >= 1 /\ f.Size * 8 >= f.k /\ ~CapacityExceeded(f.Size, f.k)
         /\ Len(f.arr) = f.Size)
            => \A s \in Strings : OneBitPerPartition(f, s)

\* Feed on an imported filter addresses no bit outside the buffer.  It does
\* not hold: FromJSON takes a buffer shorter than Size as it comes.
ImportFeedsInRange ==
    (IsFilter(cpy) /\ ~HasherPanics(cpy) /\ sectionSize(cpy) >= 1)
        => \A s \in Strings : \A hid \in Partitions(cpy) :
               InRange(cpy.arr, BitIndex(cpy, s, hid))

\* C18: every Feed call adds exactly one to the inserted counter, and a Feed
\* of a string the filter was fed before leaves the bytes as they were; the
\* counter is 0 after New and no other call changes it, so that it counts the
\* Feed calls since construction.
C18_FeedCountsEveryCall ==
    [][\A n \in Names :
         /\ \A s \in Strings :
               DoFeed(n, s) =>
                  /\ last'.res = "ok"
                  /\ filt'[n].inserted = filt[n].inserted + 1
                  /\ s \in fed[n] => filt'[n].arr = filt[n].arr
         /\ (~IsFilter(filt[n]) /\ IsFilter(filt'[n])) => filt'[n].inserted = 0
         /\ (IsFilter(filt[n]) /\ ~(last'.op = "Feed" /\ last'.f = n))
               => filt'[n].inserted = filt[n].inserted]_vars

\* What C18 says holds of every Feed call that returns.
FeedCountsWhereItReturns ==
    [][\A n \in Names :
         /\ \A s \in Strings :
               (DoFeed(n, s) /\ last'.res = "ok") =>
                  /\ filt'[n].inserted = filt[n].inserted + 1
                  /\ s \in fed[n] => filt'[n].arr = filt[n].arr
         /\ (~IsFilter(filt[n]) /\ IsFilter(filt'[n])) => filt'[n].inserted = 0
         /\ (IsFilter(filt[n]) /\ ~(last'.op = "Feed" /\ last'.f = n))
               => filt'[n].inserted = filt[n].inserted]_vars

\* C19: A.Merge(B) on filters of equal size and k succeeds; afterwards a bit
\* of A is set exactly when it was set in A or in B before; A keeps its
\* inserted counter (B's is not added), its size and its k; B is unchanged.
C19_MergeEffect ==
    [][(/\ DoMerge("A", "B")
        /\ filt["A"].Size = filt["B"].Size /\ filt["A"].k = filt["B"].k)
          => /\ last'.res = "ok"
             /\ Len(filt'["A"].arr) = Len(filt["A"].arr)
             /\ \A n \in 0..(Len(filt["A"].arr) * 8 - 1) :
                   isSet(filt'["A"].arr, n)
                      <=> (isSet(filt["A"].arr, n) \/ isSet(filt["B"].arr, n))
             /\ filt'["A"].inserted = filt["A"].inserted
             /\ filt'["A"].Size = filt["A"].Size
             /\ filt'["A"].k = filt["A"].k
             /\ filt'["B"] = filt["B"]]_vars

\* a successful merge of a filter fed twice into a filter fed once, whose
\* bytes differ afterwards
C19_Witness ==
    /\ last.op = "Merge" /\ last.res = "ok"
    /\ filt["A"].inserted = 1 /\ filt["B"].inserted = 2
    /\ filt["A"].arr # filt["B"].arr

\* what Reset() does to the filter f, g being the filter afterwards: the
\* buffer is Size zero bytes; size, k and the inserted counter are kept, and
\* with the counter what EstimateFillRatio() is computed from; FillRatio() is 0
ResetEffect(f, g) ==
    /\ Len(g.arr) = f.Size
    /\ \A i \in 1..Len(g.arr) : g.arr[i] = 0
    /\ g.Size = f.Size /\ g.k = f.k /\ g.inserted = f.inserted
    /\ EstimateAboveThreshold(g) = EstimateAboveThreshold(f)
    /\ RatioIsZero(FillRatio(g))

\* C20: Reset replaces the buffer by size zero bytes and leaves size, k and
\* the inserted counter as they were, so that afterwards EstimateFillRatio()
\* is still computed from the Feed calls made since construction while
\* FillRatio() is 0.
C20_ResetEffect ==
    [][\A n \in Names :
         DoReset(n) => ResetEffect(filt[n], filt'[n])]_vars

\* What C20 says holds of every Reset of a filter of at least one byte.
ResetEffectWhereSized ==
    [][\A n \in Names :
         (DoReset(n) /\ filt[n].Size >= 1) => ResetEffect(filt[n], filt'[n])]_vars

====
